---- MODULE Spec2Model ----
(***************************************************************************)
(* State machine of src/src/main.ts: AR session start, hit-test source     *)
(* request, per-frame reticle update, select placement and touch rotation. *)
(* Every handler of the program is one action; the browser, the renderer   *)
(* and the loader supply the inputs (frames, events, promise completions). *)
(* Angles are counted in hundredths of a radian, one per pixel of drag.    *)
(***************************************************************************)
EXTENDS Integers, Sequences, FiniteSets, TLC

VARIABLES
    platformFeatures,        \* WebXR features the device supports
    sessPc,                  \* position of startARSession (main.ts:52-102)
    session,                 \* renderer.xr.getSession() is non-null
    hitTestSource,           \* main.ts:15, TRUE when non-null
    hitTestSourceRequested,  \* main.ts:16
    pendingRef,              \* chains waiting on requestReferenceSpace('viewer')
    pendingSrc,              \* chains waiting on requestHitTestSource
    requestsIssued,          \* history: request chains issued so far
    chainRejected,           \* history: a request chain ended in its catch
    loadPc,                  \* position of the GLTF load (main.ts:113-134)
    engineModel,             \* main.ts:18, TRUE when non-null
    modelVisible,            \* engineModel.visible
    modelPosition,           \* engineModel.position
    rotationY,               \* engineModel.rotation.y, in hundredths of a radian
    isPlaced,                \* main.ts:19
    reticleVisible,          \* reticle.visible
    reticleMatrix,           \* reticle.matrix
    nTouches,                \* touch points now on the screen (e.touches.length)
    startX,                  \* main.ts:159, NoStartX when null
    dragX0,                  \* history: pageX of the touchstart that began the tracked drag
    dragRot0,                \* history: rotationY at that touchstart
    wasMulti,                \* history: "suspended" once the tracked drag got a second
                             \* touch point, "resumed" once it rotated again after that
    ev,                      \* history: the handler that ran last
    lastFrame                \* history: what the latest XR frame saw

vars == <<platformFeatures, sessPc, session, hitTestSource, hitTestSourceRequested, pendingRef,
          pendingSrc, requestsIssued, chainRejected, loadPc, engineModel,
          modelVisible, modelPosition, rotationY, isPlaced, reticleVisible,
          reticleMatrix, nTouches, startX, dragX0, dragRot0, wasMulti, ev,
          lastFrame>>

arVars == <<platformFeatures, sessPc, session, hitTestSource, hitTestSourceRequested, pendingRef,
            pendingSrc, requestsIssued, chainRejected>>
loadVars == <<loadPc, engineModel>>
modelVars == <<modelVisible, modelPosition, isPlaced>>
reticleVars == <<reticleVisible, reticleMatrix>>
touchVars == <<nTouches, startX, dragX0, dragRot0, wasMulti>>

----------------------------------------------------------------------------
(* Bounds of the model *)

MaxPose == 2       \* distinct surface poses the hit test can report
MaxHits == 2       \* longest hit-test result list of a frame
MaxTouches == 2    \* most simultaneous touch points
MaxX == 1          \* pageX ranges over 0..MaxX
MaxRot == MaxX     \* |rotationY| explored, in hundredths of a radian

----------------------------------------------------------------------------
(* Values *)

NoStartX == -1     \* startX === null

Sensitivity == 1   \* 0.01 rad per pixel, in hundredths of a radian

\* a 4x4 matrix, as its rotation part and its translation column
Identity == [basis |-> 0, pos |-> 0]

\* the pose matrices of the surfaces: alternating orientation, distinct places
Poses == {[basis |-> p % 2, pos |-> p] : p \in 1..MaxPose}

\* a hit-test result: getPose() yields the matrix, or null when ~valid
Hits == [valid : {TRUE}, matrix : Poses] \cup {[valid |-> FALSE, matrix |-> Identity]}

\* what getHitTestResults can return: the surfaces the ray meets, each once
HitLists ==
    {rs \in UNION {[1..n -> Hits] : n \in 0..MaxHits} :
        \A i, j \in 1..Len(rs) : i # j => rs[i] # rs[j]}

PageXs == 0..MaxX

\* the features a session request can name here
Features == {"hit-test", "local-floor"}

\* sessionInit.optionalFeatures: the key is absent
OptionalFeatures == {}

NoFrame == [queried |-> FALSE, hits |-> 0, pose |-> FALSE, matrix |-> Identity]

----------------------------------------------------------------------------
(* Decisions and computations of the handlers *)

\* Vector3.setFromMatrixPosition: the translation column of the matrix
SetFromMatrixPosition(m) == m.pos

\* variant: the model reference is not checked
SelectPlaces_NoModelCheck(visible, model) == visible

\* variant: the reticle is not checked
SelectPlaces_NoReticleCheck(visible, model) == model

\* variant: only hit-test is required of the device
RequiredFeatures_HitTestOnly == {"hit-test"}

\* sessionInit.requiredFeatures
RequiredFeatures == {"hit-test", "local-floor"}

\* xr.requestSession can resolve only when every required feature is there
SessionGranted(required, supported) == required \subseteq supported

\* variant: the guard is left set for the new session
GuardAfterSessionStart_Set == TRUE

\* startARSession: hitTestSourceRequested = false
GuardAfterSessionStart == FALSE

\* variant: the loaded model is left visible
LoadedVisible_Shown == TRUE

\* loadEngineModel: engineModel.visible = false
LoadedVisible == FALSE

\* onSelect's early return, negated
SelectPlaces(visible, model) == visible /\ model

\* variant: isPlaced follows the outcome of each select
PlacedAfterSelect_Follows(placed, places) == places

\* onSelect: isPlaced after the handler
PlacedAfterSelect(placed, places) == IF places THEN TRUE ELSE placed

\* variant: the request guard flag is not consulted
ShouldRequest_NoGuard(sess, requested) == sess

\* variant: the session is not checked
ShouldRequest_NoSession(sess, requested) == ~requested

\* render: the guard of the hit-test source request
ShouldRequest(sess, requested) == sess /\ ~requested

\* variant: the hit-test source is not checked
ShouldQuery_NoSource(source, refSpace) == refSpace

\* render: the guard of the hit-test query
ShouldQuery(source, refSpace) == source /\ refSpace

\* variant: an empty result list leaves the reticle as it was
VisibleAfterQuery_NoHide(visible, results) ==
    IF Len(results) > 0
    THEN (IF results[1].valid THEN TRUE ELSE visible)
    ELSE visible

\* variant: any non-empty result list shows the reticle
VisibleAfterQuery_AnyHit(visible, results) == Len(results) > 0

\* render: reticle.visible after a query that returned results
VisibleAfterQuery(visible, results) ==
    IF Len(results) > 0
    THEN (IF results[1].valid THEN TRUE ELSE visible)
    ELSE FALSE

\* variant: the last result of the list is used
MatrixAfterQuery_Last(matrix, results) ==
    IF Len(results) > 0 /\ results[Len(results)].valid
    THEN results[Len(results)].matrix ELSE matrix

\* variant: a first result without a pose resets the matrix
MatrixAfterQuery_ResetOnNull(matrix, results) ==
    IF Len(results) > 0
    THEN (IF results[1].valid THEN results[1].matrix ELSE Identity)
    ELSE matrix

\* render: reticle.matrix after a query that returned results
MatrixAfterQuery(matrix, results) ==
    IF Len(results) > 0 /\ results[1].valid THEN results[1].matrix ELSE matrix

\* variant: placement is not checked
TouchStartTracks_NoPlacedCheck(placed, n) == n = 1

\* touchstart's early return, negated
TouchStartTracks(placed, n) == placed /\ n = 1

\* variant: placement and tracking are not checked
TouchMoveRotates_Unguarded(placed, model, n, sx) == model /\ n = 1

\* variant: the number of touch points is not checked
TouchMoveRotates_AnyCount(placed, model, n, sx) ==
    placed /\ model /\ sx # NoStartX

\* touchmove's early return, negated
TouchMoveRotates(placed, model, n, sx) ==
    placed /\ model /\ n = 1 /\ sx # NoStartX

\* variant: the rotation is assigned, not accumulated
RotateBy_Assign(rot, sx, pageX) == (pageX - sx) * Sensitivity

\* touchmove: engineModel.rotation.y += deltaX * 0.01
RotateBy(rot, sx, pageX) == rot + (pageX - sx) * Sensitivity

\* touchmove after touchmove: the rotation after a drag that starts at pageX
\* xs[1] and visits the rest of xs, startX following each event
RECURSIVE RotateAlong(_, _)
RotateAlong(rot, xs) ==
    IF Len(xs) < 2 THEN rot
    ELSE RotateAlong(RotateBy(rot, xs[1], xs[2]), Tail(xs))

\* variant: the start X survives the touchend
StartXAfterTouchEnd_Keep(sx) == sx

\* touchend: startX = null
StartXAfterTouchEnd(sx) == NoStartX

----------------------------------------------------------------------------
(* State after start() has returned: every setup function has run and      *)
(* startARSession has run up to its first await or its early return.       *)

Init ==
    /\ platformFeatures \in SUBSET Features
    /\ sessPc \in {"noXR", "awaitSupported", "awaitSession"}
    /\ sessPc = "noXR" => platformFeatures = {}
    /\ session = FALSE
    /\ hitTestSource = FALSE
    /\ hitTestSourceRequested = FALSE
    /\ pendingRef = 0
    /\ pendingSrc = 0
    /\ requestsIssued = 0
    /\ chainRejected = FALSE
    /\ loadPc = "loading"
    /\ engineModel = FALSE
    /\ modelVisible = FALSE
    /\ modelPosition = 0
    /\ rotationY = 0
    /\ isPlaced = FALSE
    /\ reticleVisible = FALSE
    /\ reticleMatrix = Identity
    /\ nTouches = 0
    /\ startX = NoStartX
    /\ dragX0 = NoStartX
    /\ dragRot0 = 0
    /\ wasMulti = "no"
    /\ ev = "start"
    /\ lastFrame = NoFrame

----------------------------------------------------------------------------
(* startARSession *)

\* await xr.isSessionSupported('immersive-ar') resolves
SupportedResolves(supported) ==
    /\ sessPc = "awaitSupported"
    /\ sessPc' = IF supported THEN "awaitSession" ELSE "unsupported"
    /\ ev' = "supported"
    /\ UNCHANGED <<platformFeatures, session, hitTestSource, hitTestSourceRequested, pendingRef,
                   pendingSrc, requestsIssued, chainRejected, loadVars,
                   modelVars, rotationY, reticleVars, touchVars, lastFrame>>

\* await xr.requestSession(...) resolves: setSession, then the reset
SessionResolves ==
    /\ sessPc = "awaitSession"
    /\ SessionGranted(RequiredFeatures, platformFeatures)
    /\ sessPc' = "started"
    /\ session' = TRUE
    /\ hitTestSource' = FALSE
    /\ hitTestSourceRequested' = GuardAfterSessionStart
    /\ ev' = "sessionStarted"
    /\ UNCHANGED <<platformFeatures, pendingRef, pendingSrc, requestsIssued, chainRejected,
                   loadVars, modelVars, rotationY, reticleVars, touchVars,
                   lastFrame>>

\* either await rejects: the catch block
SessionRejects ==
    /\ sessPc \in {"awaitSupported", "awaitSession"}
    /\ sessPc' = "failed"
    /\ ev' = "sessionFailed"
    /\ UNCHANGED <<platformFeatures, session, hitTestSource, hitTestSourceRequested, pendingRef,
                   pendingSrc, requestsIssued, chainRejected, loadVars,
                   modelVars, rotationY, reticleVars, touchVars, lastFrame>>

----------------------------------------------------------------------------
(* loadEngineModel *)

LoadSucceeds ==
    /\ loadPc = "loading"
    /\ loadPc' = "loaded"
    /\ engineModel' = TRUE
    /\ modelVisible' = LoadedVisible
    /\ modelPosition' = 0
    /\ rotationY' = 0
    /\ ev' = "loaded"
    /\ UNCHANGED <<arVars, isPlaced, reticleVars, touchVars, lastFrame>>

LoadFails ==
    /\ loadPc = "loading"
    /\ loadPc' = "failed"
    /\ ev' = "loadFailed"
    /\ UNCHANGED <<arVars, engineModel, modelVars, rotationY, reticleVars,
                   touchVars, lastFrame>>

----------------------------------------------------------------------------
(* onSelect *)

Select ==
    /\ IF SelectPlaces(reticleVisible, engineModel)
       THEN /\ modelPosition' = SetFromMatrixPosition(reticleMatrix)
            /\ modelVisible' = TRUE
       ELSE UNCHANGED <<modelPosition, modelVisible>>
    /\ isPlaced' = PlacedAfterSelect(isPlaced, SelectPlaces(reticleVisible, engineModel))
    /\ ev' = "select"
    /\ UNCHANGED <<arVars, loadVars, rotationY, reticleVars, touchVars, lastFrame>>

----------------------------------------------------------------------------
(* render *)

\* one call of the animation loop; frame is the XRFrame argument (absent
\* outside a session), refSpace is renderer.xr.getReferenceSpace() non-null,
\* and the frame's getHitTestResults returns results when it is called
Render(frame, refSpace) ==
    /\ IF frame /\ ShouldRequest(session, hitTestSourceRequested)
       THEN /\ pendingRef' = pendingRef + 1
            /\ requestsIssued' = requestsIssued + 1
            /\ hitTestSourceRequested' = TRUE
       ELSE UNCHANGED <<pendingRef, requestsIssued, hitTestSourceRequested>>
    /\ IF frame /\ ShouldQuery(hitTestSource, refSpace)
       THEN \E results \in HitLists :
            /\ reticleVisible' = VisibleAfterQuery(reticleVisible, results)
            /\ reticleMatrix' = MatrixAfterQuery(reticleMatrix, results)
            /\ lastFrame' = [queried |-> TRUE,
                             hits |-> Len(results),
                             pose |-> Len(results) > 0 /\ results[1].valid,
                             matrix |-> IF Len(results) > 0 /\ results[1].valid
                                        THEN results[1].matrix ELSE Identity]
       ELSE /\ UNCHANGED reticleVars
            /\ lastFrame' = IF frame THEN NoFrame ELSE lastFrame
    /\ ev' = IF frame THEN "xrframe" ELSE "render"
    /\ UNCHANGED <<platformFeatures, sessPc, session, hitTestSource, pendingSrc, chainRejected,
                   loadVars, modelVars, rotationY, touchVars>>

\* .then of requestReferenceSpace('viewer'): requestHitTestSource is called
RefSpaceResolves ==
    /\ pendingRef > 0
    /\ pendingRef' = pendingRef - 1
    /\ pendingSrc' = pendingSrc + 1
    /\ ev' = "refSpace"
    /\ UNCHANGED <<platformFeatures, sessPc, session, hitTestSource, hitTestSourceRequested,
                   requestsIssued, chainRejected, loadVars, modelVars,
                   rotationY, reticleVars, touchVars, lastFrame>>

\* .then of requestHitTestSource: hitTestSource = source
SourceResolves ==
    /\ pendingSrc > 0
    /\ pendingSrc' = pendingSrc - 1
    /\ hitTestSource' = TRUE
    /\ ev' = "source"
    /\ UNCHANGED <<platformFeatures, sessPc, session, hitTestSourceRequested, pendingRef,
                   requestsIssued, chainRejected, loadVars, modelVars,
                   rotationY, reticleVars, touchVars, lastFrame>>

\* either promise of the chain rejects: the catch logs
ChainRejects ==
    /\ pendingRef + pendingSrc > 0
    /\ \/ pendingRef > 0 /\ pendingRef' = pendingRef - 1 /\ UNCHANGED pendingSrc
       \/ pendingSrc > 0 /\ pendingSrc' = pendingSrc - 1 /\ UNCHANGED pendingRef
    /\ chainRejected' = TRUE
    /\ ev' = "sourceFailed"
    /\ UNCHANGED <<platformFeatures, sessPc, session, hitTestSource, hitTestSourceRequested,
                   requestsIssued, loadVars, modelVars, rotationY, reticleVars,
                   touchVars, lastFrame>>

----------------------------------------------------------------------------
(* setupTouchRotation *)

\* a finger goes down; e.touches holds it too and e.touches[0].pageX is x
TouchStart(x) ==
    /\ nTouches < MaxTouches
    /\ nTouches' = nTouches + 1
    /\ IF TouchStartTracks(isPlaced, nTouches')
       THEN /\ startX' = x
            /\ dragX0' = x
            /\ dragRot0' = rotationY
            /\ wasMulti' = "no"
       ELSE /\ UNCHANGED <<startX, dragX0, dragRot0>>
            /\ wasMulti' = IF startX # NoStartX /\ nTouches' > 1
                           THEN "suspended" ELSE wasMulti
    /\ ev' = "touchstart"
    /\ UNCHANGED <<arVars, loadVars, modelVars, rotationY, reticleVars, lastFrame>>

\* a finger moves; e.touches[0].pageX is x
TouchMove(x) ==
    /\ nTouches > 0
    /\ IF TouchMoveRotates(isPlaced, engineModel, nTouches, startX)
       THEN /\ rotationY' = RotateBy(rotationY, startX, x)
            /\ rotationY' \in -MaxRot..MaxRot
            /\ startX' = x
            /\ wasMulti' = IF wasMulti = "suspended" THEN "resumed" ELSE wasMulti
       ELSE UNCHANGED <<rotationY, startX, wasMulti>>
    /\ ev' = "touchmove"
    /\ UNCHANGED <<arVars, loadVars, modelVars, reticleVars, nTouches, dragX0,
                   dragRot0, lastFrame>>

\* a finger is lifted; the listener does not look at the event
TouchEnd ==
    /\ nTouches > 0
    /\ nTouches' = nTouches - 1
    /\ startX' = StartXAfterTouchEnd(startX)
    /\ dragX0' = NoStartX
    /\ dragRot0' = 0
    /\ wasMulti' = IF nTouches' = 0 \/ wasMulti = "resumed" THEN "no" ELSE wasMulti
    /\ ev' = "touchend"
    /\ UNCHANGED <<arVars, loadVars, modelVars, rotationY, reticleVars, lastFrame>>

\* a touch point is cancelled by the browser: no listener is registered
TouchCancel ==
    /\ nTouches > 0
    /\ nTouches' = nTouches - 1
    /\ ev' = "touchcancel"
    /\ UNCHANGED <<arVars, loadVars, modelVars, rotationY, reticleVars, startX,
                   dragX0, dragRot0, wasMulti, lastFrame>>

----------------------------------------------------------------------------

Next ==
    \/ \E supported \in BOOLEAN : SupportedResolves(supported)
    \/ SessionResolves
    \/ SessionRejects
    \/ LoadSucceeds
    \/ LoadFails
    \/ Select
    \/ \E frame \in BOOLEAN, refSpace \in BOOLEAN : Render(frame, refSpace)
    \/ RefSpaceResolves
    \/ SourceResolves
    \/ ChainRejects
    \/ \E x \in PageXs : TouchStart(x)
    \/ \E x \in PageXs : TouchMove(x)
    \/ TouchEnd
    \/ TouchCancel

Spec == Init /\ [][Next]_vars

\* a render call that carries an XRFrame
XRFrame == \E refSpace \in BOOLEAN : Render(TRUE, refSpace)

\* the session, the asset load, select and the frames, without the touch
\* listeners: those write only the touch state and the model's rotation, which
\* no other handler reads
SessionNext ==
    \/ \E supported \in BOOLEAN : SupportedResolves(supported)
    \/ SessionResolves
    \/ SessionRejects
    \/ LoadSucceeds
    \/ LoadFails
    \/ Select
    \/ \E frame \in BOOLEAN, refSpace \in BOOLEAN : Render(frame, refSpace)
    \/ RefSpaceResolves
    \/ SourceResolves
    \/ ChainRejects

\* setAnimationLoop keeps delivering frames, and a pending promise of the
\* request chain settles: it resolves unless it rejects
FairSpec ==
    /\ Init
    /\ [][SessionNext]_vars
    /\ WF_vars(XRFrame)
    /\ WF_vars(RefSpaceResolves)
    /\ WF_vars(SourceResolves)

----------------------------------------------------------------------------
(* Properties *)

TouchEvents == {"touchstart", "touchmove", "touchend", "touchcancel"}

\* C1: isPlaced goes from false to true exactly in a select event received
\* while the reticle is visible and the model reference is set; a select
\* without either, and every other event, leaves isPlaced false.
C1_PlacementIff ==
    [][~isPlaced =>
         (isPlaced' <=> (ev' = "select" /\ reticleVisible /\ engineModel))]_vars

\* a select has just placed the model
C1_Witness ==
    /\ ev = "select"
    /\ isPlaced
    /\ modelVisible
    /\ reticleVisible

\* C2: once isPlaced is true it is true in every later state.
C2_Monotonic == [][isPlaced => isPlaced']_vars

\* the model is placed and a later frame has hidden the reticle
C2_Witness ==
    /\ isPlaced
    /\ ev = "xrframe"
    /\ lastFrame.queried
    /\ ~reticleVisible

\* C3: the hit-test source request chain is issued once per session: an XR
\* frame with an active session and the guard unset issues it and sets the
\* guard, and no other step issues one; never more than one is issued.
C3_RequestOnce ==
    /\ [](requestsIssued <= 1 /\ (hitTestSourceRequested <=> requestsIssued = 1))
    /\ [][IF ev' = "xrframe" /\ session /\ requestsIssued = 0
          THEN requestsIssued' = 1 /\ hitTestSourceRequested' /\ pendingRef' = 1
          ELSE requestsIssued' = requestsIssued]_vars

\* the one request resolved and frames went on querying with it
C3_Witness ==
    /\ requestsIssued = 1
    /\ hitTestSource
    /\ ev = "xrframe"
    /\ lastFrame.queried

\* C4: after an XR frame whose hit-test query returned no result the reticle
\* is invisible and its matrix is the one it had before the frame.
C4_EmptyHides ==
    [][(ev' = "xrframe" /\ lastFrame'.queried /\ lastFrame'.hits = 0) =>
         (~reticleVisible' /\ reticleMatrix' = reticleMatrix)]_vars

\* an empty frame has hidden a reticle that keeps a pose it was given
C4_Witness ==
    /\ ev = "xrframe"
    /\ lastFrame.queried
    /\ lastFrame.hits = 0
    /\ ~reticleVisible
    /\ reticleMatrix # Identity

\* C5: after an XR frame whose query returned results, the first with a valid
\* pose, the reticle is visible and its matrix is the first result's pose,
\* whatever the later results are.
C5_FirstPose ==
    [][(ev' = "xrframe" /\ lastFrame'.queried /\ lastFrame'.hits >= 1
          /\ lastFrame'.pose) =>
         (reticleVisible' /\ reticleMatrix' = lastFrame'.matrix)]_vars

\* a frame with several differing results has set the reticle
C5_Witness ==
    /\ ev = "xrframe"
    /\ lastFrame.pose
    /\ lastFrame.hits >= 2
    /\ reticleVisible
    /\ reticleMatrix = lastFrame.matrix

\* C6: in every reachable state the reticle is visible if and only if the
\* latest XR frame's hit-test query returned at least one result.
C6_VisibleIffHits ==
    reticleVisible <=> (lastFrame.queried /\ lastFrame.hits > 0)

\* C6 as amended: the reticle is invisible when the latest XR frame's query
\* returned no result and visible when its first result had a valid pose; an
\* XR frame that ran no query or whose first result had no pose leaves the
\* visibility as it was, and no other step changes it.
C6_VisibleByLastDecision ==
    /\ [](/\ (lastFrame.queried /\ lastFrame.hits = 0) => ~reticleVisible
          /\ lastFrame.pose => reticleVisible)
    /\ [][~(lastFrame'.queried /\ (lastFrame'.hits = 0 \/ lastFrame'.pose)) =>
            reticleVisible' = reticleVisible]_vars

\* the latest frame returned a result without a pose and the reticle is hidden
C6_Witness ==
    /\ ev = "xrframe"
    /\ lastFrame.queried
    /\ lastFrame.hits > 0
    /\ ~lastFrame.pose
    /\ ~reticleVisible

\* C7: while isPlaced is false no touch event changes the model's rotation.
C7_NoRotationUnplaced ==
    [][(~isPlaced /\ ev' \in TouchEvents) => rotationY' = rotationY]_vars

\* a single-touch touchmove was delivered before placement, model loaded
C7_Witness ==
    /\ ev = "touchmove"
    /\ nTouches = 1
    /\ engineModel
    /\ ~isPlaced
    /\ rotationY = 0

\* C8: while a drag is tracked, the rotation gained since its touchstart is
\* the distance from the touchstart's pageX to the last pageX, one hundredth
\* of a radian per pixel; deltas +10, -5, +20 give 25 hundredths.
C8_CumulativeRotation ==
    /\ startX # NoStartX =>
          rotationY = dragRot0 + (startX - dragX0) * Sensitivity
    /\ RotateAlong(0, <<100, 110, 105, 125>>) = 25

\* a tracked drag has moved and the model has turned with it
C8_Witness ==
    /\ ev = "touchmove"
    /\ isPlaced
    /\ startX # NoStartX
    /\ startX # dragX0
    /\ rotationY # dragRot0

\* C9: during a placed drag a touchstart or touchmove with more than one touch
\* point changes neither the rotation nor the tracked start X, and once the
\* gesture is back to a single touch point the start X is still tracked, so
\* that single-touch touchmove events rotate again without a new touchstart.
C9_SuspendedNotReset ==
    /\ [][(ev' \in {"touchstart", "touchmove"} /\ nTouches' > 1) =>
            (startX' = startX /\ rotationY' = rotationY)]_vars
    /\ []((isPlaced /\ wasMulti = "suspended" /\ nTouches = 1) =>
            startX # NoStartX)

\* C9 as amended: a touchstart or touchmove with more than one touch point
\* changes neither the rotation nor the tracked start X; a touchend, also the
\* one that brings the gesture back to a single touch point, clears the start
\* X; a cancelled touch point leaves it, and a single-touch touchmove with the
\* start X still tracked rotates the model by its distance from the start X.
C9_SuspendedUntilTouchEnd ==
    /\ [][(ev' \in {"touchstart", "touchmove"} /\ nTouches' > 1) =>
            (startX' = startX /\ rotationY' = rotationY)]_vars
    /\ [][ev' = "touchend" => startX' = NoStartX]_vars
    /\ [][ev' = "touchcancel" =>
            (startX' = startX /\ rotationY' = rotationY)]_vars
    /\ [][(ev' = "touchmove" /\ isPlaced /\ nTouches' = 1 /\ startX # NoStartX) =>
            rotationY' = rotationY + (startX' - startX) * Sensitivity]_vars

\* a drag that had a second touch point rotates again, no touchstart between
C9_Witness ==
    /\ ev = "touchmove"
    /\ isPlaced
    /\ wasMulti = "resumed"
    /\ nTouches = 1
    /\ rotationY # dragRot0

\* C10: after the asset load has failed the model reference is null and
\* isPlaced is false in every state, whatever select events arrive.
C10_LoadFailureBlocksPlacement ==
    loadPc = "failed" => (~engineModel /\ ~isPlaced)

\* a select arrived with the reticle visible after the load had failed
C10_Witness ==
    /\ loadPc = "failed"
    /\ ev = "select"
    /\ reticleVisible
    /\ ~isPlaced

SessionEnded == {"noXR", "unsupported", "failed"}

\* C11: once the hit-test source request chain has rejected, hitTestSource is
\* null, the guard is still set, no second request is issued, the reticle is
\* invisible and the model is not placed, in every later state.
C11_RejectionIsFinal ==
    chainRejected =>
        /\ ~hitTestSource
        /\ hitTestSourceRequested
        /\ requestsIssued = 1
        /\ ~reticleVisible
        /\ ~isPlaced

\* a select arrived, model loaded, after the chain had rejected
C11_Witness ==
    /\ chainRejected
    /\ ev = "select"
    /\ engineModel
    /\ lastFrame = NoFrame
    /\ pendingRef + pendingSrc = 0

\* C12: when startARSession has ended without a session (no navigator.xr,
\* immersive-ar unsupported, or a rejected await) it stays ended, no session
\* is set, no hit-test source request is ever issued, and hitTestSource, the
\* guard, isPlaced and the reticle are as start() left them, while render calls
\* go on.
C12_NoSessionNoRequest ==
    /\ [](sessPc \in SessionEnded =>
            /\ ~session
            /\ ~hitTestSource
            /\ ~hitTestSourceRequested
            /\ requestsIssued = 0
            /\ ~isPlaced
            /\ ~reticleVisible
            /\ reticleMatrix = Identity)
    /\ [][(sessPc \in SessionEnded) => (sessPc' = sessPc)]_vars

\* a frame was rendered after the session request had failed
C12_Witness ==
    /\ sessPc = "failed"
    /\ ev = "xrframe"
    /\ requestsIssued = 0

\* C13: a successful session start leaves hitTestSource null and the guard
\* unset with no request issued yet; the first XR frame of the session then
\* issues the request, and the session goes on to a non-null hitTestSource
\* unless the request chain rejects.
C13_FreshRequestPerSession ==
    /\ [][(sessPc = "awaitSession" /\ sessPc' = "started") =>
            (~hitTestSource' /\ ~hitTestSourceRequested' /\ requestsIssued' = 0)]_vars
    /\ [][(ev' = "xrframe" /\ sessPc = "started" /\ requestsIssued = 0) =>
            (requestsIssued' = 1 /\ pendingRef' = 1)]_vars
    /\ (sessPc = "started") ~> (hitTestSource \/ chainRejected)

\* the request of the started session has just resolved
C13_Witness ==
    /\ sessPc = "started"
    /\ ev = "source"
    /\ hitTestSource
    /\ requestsIssued = 1
    /\ ~chainRejected

\* C14: placement by select is one-shot: once the model is placed no later
\* step, a further select included, changes the model's position.
C14_PlacedPositionFixed ==
    [][isPlaced => modelPosition' = modelPosition]_vars

C16_TouchEndClears ==
    /\ [][ev' = "touchend" => startX' = NoStartX]_vars
    /\ [][(startX = NoStartX /\ ev' = "touchmove") =>
            (rotationY' = rotationY /\ startX' = NoStartX)]_vars
    /\ [][(startX = NoStartX /\ startX' # NoStartX) =>
            (ev' = "touchstart" /\ nTouches' = 1 /\ isPlaced)]_vars

\* a touchend ended a suspended drag and the finger left down moved: no turn
C16_Witness ==
    /\ ev = "touchmove"
    /\ isPlaced
    /\ wasMulti = "suspended"
    /\ nTouches = 1
    /\ startX = NoStartX
    /\ rotationY = 0

\* C17: a touchstart while the model is not placed is ignored, so start X is
\* null as long as the model is unplaced and still null right after the
\* placement; with start X null every event but a touchstart leaves it null and
\* the rotation unchanged, so the touch that was down at placement never
\* rotates the model.
C17_TouchBeforePlacement ==
    /\ [](~isPlaced => (startX = NoStartX /\ rotationY = 0))
    /\ [][(~isPlaced /\ isPlaced') => startX' = NoStartX]_vars
    /\ [][(startX = NoStartX /\ ev' # "touchstart") =>
            (startX' = NoStartX /\ rotationY' = rotationY)]_vars

\* the touch that was down before the placement moves after it: no turn
C17_Witness ==
    /\ ev = "touchmove"
    /\ isPlaced
    /\ wasMulti = "no"
    /\ nTouches = 1
    /\ startX = NoStartX
    /\ rotationY = 0

\* C18: in every reachable state isPlaced implies a non-null model reference,
\* and a loaded model is visible exactly when it is placed.
C18_PlacedModelVisible ==
    /\ isPlaced => engineModel
    /\ engineModel => (modelVisible <=> isPlaced)

\* the load and the hit-test source have completed, a select was ignored
C18_Witness ==
    /\ ev = "select"
    /\ engineModel
    /\ hitTestSource
    /\ ~isPlaced
    /\ ~modelVisible

\* C19: in every reachable state a visible reticle implies a non-null
\* hitTestSource, and a non-null hitTestSource implies the guard is set.
C19_VisibleNeedsSource ==
    /\ reticleVisible => hitTestSource
    /\ hitTestSource => (hitTestSourceRequested /\ requestsIssued = 1)

\* the reticle is visible: the request was issued and has resolved
C19_Witness ==
    /\ reticleVisible
    /\ ~isPlaced
    /\ hitTestSource
    /\ pendingRef + pendingSrc = 0
    /\ ev = "xrframe"

\* C20: a render call without an XR frame, and an XR frame that runs no query
\* or whose first result has no pose, leave the reticle's visibility and its
\* matrix as they were.
C20_NoUpdateKeepsReticle ==
    [][(\/ ev' = "render"
        \/ /\ ev' = "xrframe"
           /\ ~(lastFrame'.queried /\ (lastFrame'.hits = 0 \/ lastFrame'.pose))) =>
         (reticleVisible' = reticleVisible /\ reticleMatrix' = reticleMatrix)]_vars

\* a frame whose first result had no pose has left the reticle shown in place
C20_Witness ==
    /\ ev = "xrframe"
    /\ lastFrame.queried
    /\ lastFrame.hits > 0
    /\ ~lastFrame.pose
    /\ reticleVisible
    /\ reticleMatrix # Identity

====
